---- MODULE Spec2Model ----
(***************************************************************************)
(* A model of the two streaming Parquet tools of the repository:          *)
(*   scripts/split_parquet.py   split_parquet_equal_rows (one -> many)     *)
(*   scripts/concat_parquet.py  main                     (many -> one)     *)
(* Rows are opaque values; a file is a sequence of row groups, a row group *)
(* a sequence of rows.  Python's None is the empty tuple, a present value  *)
(* v is <<v>>.                                                             *)
(***************************************************************************)
EXTENDS Integers, Sequences, FiniteSets, TLC

VARIABLES
    batches,    \* split: the record batches scanner.to_batches() yields (row counts)
    split,      \* split: arguments and locals of split_parquet_equal_rows
    out_files,  \* split: the partition files of output_dir, by file index + 1
    source,     \* merge: the row groups of every Parquet file on disk, by path
    schemas,    \* merge: the Arrow schema of every file on disk, None when unreadable
    merge,      \* merge: arguments and locals of main
    output,     \* merge: the output file: its writer's state and its row groups
    listing     \* split, then merge: partition file names and the order they sort in

vars == <<batches, split, out_files, source, schemas, merge, output, listing>>

(* ------------------------------ bounds -------------------------------- *)
MaxBatches == 3
MaxBatchRows == 3
MaxParts == 3
MaxRowsPerFile == 3
MaxBufferRows == 3
MaxFaultPos == 3
MaxPath == 3
MaxGlob == 3
MaxRowGroups == 2
MaxRowGroupRows == 3
MaxRowGroupSize == 2

(* ------------------------------ helpers ------------------------------- *)
None == <<>>
Some(v) == <<v>>
Val(o) == o[1]

\* F applied to the value of x, x evaluated once
Bind(x, F(_)) == CHOOSE r \in {F(v) : v \in {x}} : TRUE

Min(a, b) == IF a <= b THEN a ELSE b
Max(a, b) == IF a >= b THEN a ELSE b

\* a // b in place of math.ceil(a / b)
Floor(a, b) == a \div b

\* math.ceil(a / b) for a >= 0, b >= 1
Ceil(a, b) == (a + b - 1) \div b

RECURSIVE SumSeq(_)
SumSeq(s) == IF s = <<>> THEN 0 ELSE Head(s) + SumSeq(Tail(s))

RECURSIVE Flatten(_)
Flatten(ss) == IF ss = <<>> THEN <<>> ELSE Head(ss) \o Flatten(Tail(ss))

\* the rows offset+1 .. offset+length of a table (Table.slice / RecordBatch.slice)
Slice(rows, offset, length) == SubSeq(rows, offset + 1, offset + length)

\* the row groups a writer forms of a table when asked for row_group_size rows each
RECURSIVE Chunks(_, _)
Chunks(rows, size) ==
    IF rows = <<>> THEN <<>>
    ELSE IF Len(rows) <= size THEN <<rows>>
    ELSE <<SubSeq(rows, 1, size)>> \o Chunks(SubSeq(rows, size + 1, Len(rows)), size)

RECURSIVE SeqsUpTo(_, _)
SeqsUpTo(S, n) ==
    IF n = 0 THEN {<<>>}
    ELSE LET shorter == SeqsUpTo(S, n - 1)
         IN  shorter \cup {Append(s, x) : s \in {t \in shorter : Len(t) = n - 1}, x \in S}

(* ============================ split_parquet =========================== *)

\* dataset.count_rows()
CountRows(bs) == SumSeq(bs)

\* rows are numbered 1..total_rows in input order; batch i holds the next batches[i]
BatchRows(bs, i) ==
    LET base == SumSeq(SubSeq(bs, 1, i - 1))
    IN  [k \in 1..bs[i] |-> base + k]

\* one input-output call of the run: with fault = 1 it raises, otherwise it succeeds
Raises(c) == c.fault = 1
Tick(c) == [c EXCEPT !.fault = IF @ > 1 THEN @ - 1 ELSE @]
Raise(c, what) == [c EXCEPT !.st.raised = Some(what), !.fault = 0]

\* writer.write_table(table[, row_group_size]) on the current writer
write_table(cc, table, row_group_size) ==
    Bind(cc, LAMBDA c :
        IF Raises(c) THEN Raise(c, "write_table")
        ELSE LET groups == IF row_group_size # None /\ Val(row_group_size) > 0
                           THEN Chunks(table, Val(row_group_size))
                           ELSE <<table>>
             IN  [Tick(c) EXCEPT !.fs[Val(c.st.writer)].row_groups = @ \o groups])

\* flush_buffer without buffer_batches.clear()
flush_buffer_keeps(cc, row_group_size) ==
    Bind(cc, LAMBDA c :
        IF c.st.raised # None THEN c
        ELSE IF c.st.buffered_rows = 0 THEN c
        ELSE Bind(write_table(c, Flatten(c.st.buffer_batches), row_group_size), LAMBDA w :
                 IF w.st.raised # None THEN w
                 ELSE [w EXCEPT !.st.buffered_rows = 0]))

flush_buffer(cc, row_group_size) ==
    Bind(cc, LAMBDA c :
        IF c.st.raised # None THEN c
        ELSE IF c.st.buffered_rows = 0 THEN c
        ELSE Bind(write_table(c, Flatten(c.st.buffer_batches), row_group_size), LAMBDA w :
                 IF w.st.raised # None THEN w
                 ELSE [w EXCEPT !.st.buffer_batches = <<>>, !.st.buffered_rows = 0]))

\* writer.close()
close_writer(cc) ==
    Bind(cc, LAMBDA c :
        IF c.st.raised # None THEN c
        ELSE [c EXCEPT !.fs[Val(c.st.writer)].closed = TRUE,
                       !.st.closed_unflushed = Max(@, c.st.buffered_rows)])

\* _open_writer(path, schema, compression)
open_writer(cc) ==
    Bind(cc, LAMBDA c :
        IF c.st.raised # None THEN c
        ELSE IF Raises(c) THEN Raise(c, "open_writer")
        ELSE [Tick(c) EXCEPT !.fs = Append(@, [row_groups |-> <<>>, closed |-> FALSE]),
                             !.st.writer = Some(c.st.file_index + 1)])

start_new_file(cc) ==
    Bind(cc, LAMBDA c :
        IF c.st.raised # None THEN c
        ELSE IF c.st.max_files # None /\ c.st.file_index >= Val(c.st.max_files)
        THEN [c EXCEPT !.st.ret = FALSE]
        ELSE Bind(open_writer(IF c.st.writer # None
                              THEN close_writer(flush_buffer(c, Some(c.st.buffer_target_rows)))
                              ELSE c),
                  LAMBDA o :
                     IF o.st.raised # None THEN o
                     ELSE [o EXCEPT !.st.file_index = @ + 1,
                                    !.st.produced = @ + 1,
                                    !.st.rows_in_current = 0,
                                    !.st.ret = TRUE]))

\* lines 160-168: how many rows the current file can still take
set_capacity(cc) ==
    Bind(cc, LAMBDA c :
        IF c.st.max_files # None /\ c.st.file_index >= Val(c.st.max_files)
        THEN [c EXCEPT !.st.capacity = c.st.n - c.st.offset]
        ELSE IF c.st.target_rows - c.st.rows_in_current <= 0
        THEN Bind(start_new_file([c EXCEPT !.st.capacity =
                                      c.st.target_rows - c.st.rows_in_current,
                                           !.st.rolled_on_capacity = TRUE]),
                  LAMBDA r :
                     IF r.st.raised = None /\ ~r.st.ret
                     THEN [r EXCEPT !.st.capacity = r.st.n - r.st.offset]
                     ELSE r)
        ELSE [c EXCEPT !.st.capacity = c.st.target_rows - c.st.rows_in_current])

\* the flush test with > for >=
flush_due_late(st) == st.buffered_rows > st.buffer_target_rows

\* line 179: the buffer has reached the row-group threshold
flush_due(st) == st.buffered_rows >= st.buffer_target_rows

\* take_slice with take = n - offset, the capacity ignored
take_slice_rest(cc, batch) ==
    Bind(cc, LAMBDA c :
        IF c.st.raised # None THEN c
        ELSE Bind(c.st.n - c.st.offset, LAMBDA take :
            IF take <= 0 THEN [c EXCEPT !.st.take = take]
            ELSE Bind([c EXCEPT
                          !.st.take = take,
                          !.st.buffer_batches = Append(@, Slice(batch, c.st.offset, take)),
                          !.st.buffered_rows = @ + take,
                          !.st.peak_buffered = Max(@, c.st.buffered_rows + take),
                          !.st.rows_in_current = @ + take,
                          !.st.offset = @ + take],
                      LAMBDA b :
                         IF flush_due(b.st)
                         THEN flush_buffer(b, Some(b.st.buffer_target_rows))
                         ELSE b)))

\* lines 170-180: buffer the slice and flush a big buffer
take_slice(cc, batch) ==
    Bind(cc, LAMBDA c :
        IF c.st.raised # None THEN c
        ELSE Bind(Min(c.st.capacity, c.st.n - c.st.offset), LAMBDA take :
            IF take <= 0 THEN [c EXCEPT !.st.take = take]
            ELSE Bind([c EXCEPT
                          !.st.take = take,
                          !.st.buffer_batches = Append(@, Slice(batch, c.st.offset, take)),
                          !.st.buffered_rows = @ + take,
                          !.st.peak_buffered = Max(@, c.st.buffered_rows + take),
                          !.st.rows_in_current = @ + take,
                          !.st.offset = @ + take],
                      LAMBDA b :
                         IF flush_due(b.st)
                         THEN flush_buffer(b, Some(b.st.buffer_target_rows))
                         ELSE b)))

\* the loop body without the roll of lines 182-186
roll_if_full_skipped(cc) == cc

\* lines 182-186: roll to the next file when the current one is full
roll_if_full(cc) ==
    Bind(cc, LAMBDA c :
        IF c.st.raised # None THEN c
        ELSE IF (c.st.max_files = None \/ c.st.file_index < Val(c.st.max_files))
                /\ c.st.rows_in_current >= c.st.target_rows
        THEN start_new_file(flush_buffer(c, Some(c.st.buffer_target_rows)))
        ELSE c)

\* one pass of the slicing loop body, lines 160-186
slice_step(c, batch) == roll_if_full(take_slice(set_capacity(c), batch))

\* finish without the flush of line 189
finish_unflushed(cc) ==
    Bind(cc, LAMBDA f :
        Bind(IF f.st.writer # None THEN close_writer(f) ELSE f, LAMBDA g :
            IF g.st.raised # None THEN g
            ELSE IF g.st.max_files # None /\ g.st.produced > Val(g.st.max_files)
            THEN Raise(g, "RuntimeError")
            ELSE [g EXCEPT !.st.result = Some(g.st.produced)]))

\* final flush and close, the sanity check and the return, lines 188-201
finish(cc) ==
    Bind(flush_buffer(cc, Some(cc.st.buffer_target_rows)), LAMBDA f :
        Bind(IF f.st.writer # None THEN close_writer(f) ELSE f, LAMBDA g :
            IF g.st.raised # None THEN g
            ELSE IF g.st.max_files # None /\ g.st.produced > Val(g.st.max_files)
            THEN Raise(g, "RuntimeError")
            ELSE [g EXCEPT !.st.result = Some(g.st.produced)]))

Ctx(fault) == [st |-> split, fs |-> out_files, fault |-> fault]

Commit(c, pc) ==
    /\ split' = [c.st EXCEPT !.pc = IF c.st.raised # None THEN "raised" ELSE pc]
    /\ out_files' = c.fs

SplitIdle ==
    [pc |-> "idle", parts |-> None, rows_per_file |-> None, buffer_target_rows |-> 1,
     total_rows |-> 0, target_rows |-> 0, max_files |-> None,
     file_index |-> 0, rows_in_current |-> 0, produced |-> 0, writer |-> None,
     buffer_batches |-> <<>>, buffered_rows |-> 0,
     batch_i |-> 0, n |-> 0, offset |-> 0, capacity |-> 0, ret |-> FALSE,
     raised |-> None, result |-> None, outdir |-> FALSE,
     peak_buffered |-> 0, closed_unflushed |-> 0, take |-> 0,
     rolled_on_capacity |-> FALSE]

MergeIdle ==
    [pc |-> "idle", row_group_size |-> None, out_abs |-> 0, matched |-> {},
     files |-> <<>>, files_written |-> 0, rowgroups_written |-> 0, total_rows |-> 0,
     file_i |-> 0, path |-> 0, rg_i |-> 0, wrote_any_rg |-> FALSE,
     failed |-> {}, exit_code |-> None, summary |-> None,
     columns |-> None, coerce_timestamps |-> None, uncoerced |-> <<>>, unified |-> <<>>,
     raised |-> None]
ListingIdle == [pc |-> "idle", indices |-> <<>>, names |-> <<>>, order |-> <<>>]

OutputIdle ==
    [opens |-> 0, closes |-> 0, late_writes |-> 0, row_groups |-> <<>>,
     schema |-> <<>>, columns |-> <<>>]

\* the arguments a caller may pass: each of parts and rows_per_file absent or an integer
PartsArgs == {None} \cup {Some(p) : p \in 0..MaxParts}
RowsPerFileArgs == {None} \cup {Some(r) : r \in 0..MaxRowsPerFile}

SplitInit ==
    /\ listing = ListingIdle
    /\ schemas = <<>>
    /\ batches \in SeqsUpTo(0..MaxBatchRows, MaxBatches)
    /\ \E p \in PartsArgs, r \in RowsPerFileArgs, b \in 1..MaxBufferRows :
          split = [SplitIdle EXCEPT !.pc = "validate", !.parts = p,
                                    !.rows_per_file = r, !.buffer_target_rows = b]
    /\ out_files = <<>>
    /\ source = <<>>
    /\ merge = MergeIdle
    /\ output = OutputIdle

\* lines 97 and 102: the rows each output file is to hold
TargetRows(parts, rows_per_file, total) ==
    IF parts # None THEN Max(1, Ceil(total, Val(parts))) ELSE Val(rows_per_file)

\* lines 98 and 103: the cap on the number of output files
MaxFilesOff(parts) == IF parts # None THEN Some(Val(parts) + 1) ELSE None
MaxFiles(parts) == parts

\* the checks of lines 85, 95 and 100 with "both given" let through
options_error_lax(parts, rows_per_file) ==
    \/ (parts = None /\ rows_per_file = None)
    \/ (parts # None /\ Val(parts) <= 0)
    \/ (parts = None /\ rows_per_file # None /\ Val(rows_per_file) <= 0)

\* lines 85, 95 and 100: the arguments that raise ValueError
options_error(parts, rows_per_file) ==
    \/ (parts = None) = (rows_per_file = None)
    \/ (parts # None /\ Val(parts) <= 0)
    \/ (parts = None /\ Val(rows_per_file) <= 0)

\* option validation and target computation, lines 84-110; the output directory is
\* made at line 110, after every check
Validate ==
    /\ split.pc = "validate"
    /\ LET total == CountRows(batches)
       IN  IF options_error(split.parts, split.rows_per_file)
           THEN split' = [split EXCEPT
                             !.pc = "raised",
                             !.total_rows = IF (split.parts = None) = (split.rows_per_file = None)
                                            THEN @ ELSE total,
                             !.raised = Some("ValueError")]
           ELSE split' = [split EXCEPT
                             !.pc = "open_first", !.total_rows = total,
                             !.target_rows = TargetRows(split.parts, split.rows_per_file, total),
                             !.max_files = MaxFiles(split.parts),
                             !.outdir = TRUE]
    /\ UNCHANGED <<batches, out_files, source, schemas, merge, output, listing>>

\* the locals' initial values and the first start_new_file, lines 112-152
open_first(c) ==
    Bind(start_new_file(c), LAMBDA r :
        IF r.st.raised = None /\ ~r.st.ret THEN Raise(r, "RuntimeError") ELSE r)

OpenFirst ==
    /\ split.pc = "open_first"
    /\ \E c \in {open_first(Ctx(0))} : Commit(c, "stream")
    /\ UNCHANGED <<batches, source, schemas, merge, output, listing>>

OpenFirstRaises ==
    /\ split.pc = "open_first"
    /\ \E f \in 1..MaxFaultPos :
          \E c \in {open_first(Ctx(f))} :
              c.st.raised # None /\ Commit(c, "stream")
    /\ UNCHANGED <<batches, source, schemas, merge, output, listing>>

\* the for loop takes the next record batch, lines 156-158
NextBatch ==
    /\ split.pc = "stream"
    /\ split.offset >= split.n
    /\ split.batch_i < Len(batches)
    /\ split' = [split EXCEPT !.batch_i = @ + 1, !.offset = 0,
                              !.n = batches[split.batch_i + 1]]
    /\ UNCHANGED <<batches, out_files, source, schemas, merge, output, listing>>

SliceStep ==
    /\ split.pc = "stream"
    /\ split.offset < split.n
    /\ \E c \in {slice_step(Ctx(0), BatchRows(batches, split.batch_i))} : Commit(c, "stream")
    /\ UNCHANGED <<batches, source, schemas, merge, output, listing>>

SliceStepRaises ==
    /\ split.pc = "stream"
    /\ split.offset < split.n
    /\ \E f \in 1..MaxFaultPos :
          \E c \in {slice_step(Ctx(f), BatchRows(batches, split.batch_i))} :
              c.st.raised # None /\ Commit(c, "stream")
    /\ UNCHANGED <<batches, source, schemas, merge, output, listing>>

Finish ==
    /\ split.pc = "stream"
    /\ split.offset >= split.n
    /\ split.batch_i = Len(batches)
    /\ \E c \in {finish(Ctx(0))} : Commit(c, "done")
    /\ UNCHANGED <<batches, source, schemas, merge, output, listing>>

FinishRaises ==
    /\ split.pc = "stream"
    /\ split.offset >= split.n
    /\ split.batch_i = Len(batches)
    /\ \E f \in 1..MaxFaultPos :
          \E c \in {finish(Ctx(f))} :
              c.st.raised # None /\ Commit(c, "done")
    /\ UNCHANGED <<batches, source, schemas, merge, output, listing>>

SplitNext ==
    \/ Validate
    \/ OpenFirst
    \/ OpenFirstRaises
    \/ NextBatch
    \/ SliceStep
    \/ SliceStepRaises
    \/ Finish
    \/ FinishRaises

SplitSpec == SplitInit /\ [][SplitNext]_vars

\* the function runs on: a sequential program takes its next step while it has one
SplitFairSpec == SplitSpec /\ WF_vars(SplitNext)

(* ============================ concat_parquet ========================== *)
(* A path is a number, ordered as the path strings are; the paths 1..MaxPath *)
(* end in ".parquet" and path 0 does not.  A name the glob returns is one of *)
(* two spellings of a path: the names 2p and 2p+1 both resolve to path p.    *)

Paths == 0..MaxPath
Names == 0..(2 * MaxPath + 1)

\* os.path.abspath(f)
abspath(f) == f \div 2

\* f.lower().endswith(".parquet")
endswith_parquet(f) == f \div 2 >= 1

\* sorted(S) of a set of paths
RECURSIVE sorted(_)
sorted(S) ==
    IF S = {} THEN <<>>
    ELSE LET m == CHOOSE x \in S : \A y \in S : x <= y
         IN  <<m>> \o sorted(S \ {m})

\* the paths in the order the glob returned them, duplicates dropped, not sorted
RECURSIVE in_glob_order(_)
in_glob_order(fs) ==
    IF fs = <<>> THEN <<>>
    ELSE LET rest == in_glob_order(SubSeq(fs, 1, Len(fs) - 1))
             f == abspath(fs[Len(fs)])
         IN  IF ~endswith_parquet(fs[Len(fs)]) \/ \E i \in 1..Len(rest) : rest[i] = f
             THEN rest
             ELSE Append(rest, f)

\* discover_inputs without sorted()
discover_inputs_unsorted(fs) == in_glob_order(fs)

\* discover_inputs, line 85, of the names the glob returned
discover_inputs(fs) ==
    sorted({abspath(fs[i]) : i \in {j \in 1..Len(fs) : endswith_parquet(fs[j])}})

\* the file at path p: its row groups, the rows numbered <<p, 1>>, <<p, 2>>, ...
RECURSIVE NumberRows(_, _, _)
NumberRows(p, sizes, base) ==
    IF sizes = <<>> THEN <<>>
    ELSE <<[i \in 1..Head(sizes) |-> <<p, base + i>>]>>
         \o NumberRows(p, Tail(sizes), base + Head(sizes))

\* the layouts of the files on disk the runs are checked on: file p has
\* (p + seed) mod (MaxRowGroups + 1) row groups of 1..MaxRowGroupRows rows each
Layout(seed, shift) ==
    [p \in 1..MaxPath |->
        NumberRows(p,
                   [i \in 1..((p + seed) % (MaxRowGroups + 1)) |->
                       1 + ((p + i + shift) % MaxRowGroupRows)],
                   0)]

Layouts == {Layout(seed, shift) : seed \in 0..MaxRowGroups, shift \in 0..(MaxRowGroupRows - 1)}

\* iter_row_groups(path): pf.num_row_groups and pf.read_row_group(i)
num_row_groups(path) == Len(source[path])
read_row_group(path, i) == source[path][i + 1]

\* pq.ParquetFile(path) succeeds
readable(path) == schemas[path] # None

\* the schema of the table read_row_group(i, columns=columns) returns: the file's
\* columns among the names asked for, in the file's order
read_schema(path, columns) ==
    SelectSeq(Val(schemas[path]), LAMBDA f : \E i \in 1..Len(columns) : columns[i] = f.name)

\* lines 266-272: the slices of a row group larger than the row-group size
RECURSIVE rechunk(_, _, _)
rechunk(rg_tbl, size, offset) ==
    IF offset < Len(rg_tbl)
    THEN LET end == Min(offset + size, Len(rg_tbl))
         IN  <<Slice(rg_tbl, offset, end - offset)>> \o rechunk(rg_tbl, size, end)
    ELSE <<>>

\* every row group written whole, whatever the row-group size
tables_to_write_whole(rg_tbl, row_group_size) == <<rg_tbl>>

\* lines 264-278: the tables written for one row group, in order
tables_to_write(rg_tbl, row_group_size) ==
    IF row_group_size # None /\ Val(row_group_size) # 0
       /\ Len(rg_tbl) > Val(row_group_size)
    THEN rechunk(rg_tbl, Val(row_group_size), 0)
    ELSE <<rg_tbl>>

\* writer.write_table(t) for each of tables, with the counters of lines 270-277
write_tables(m, out, tables, cols) ==
    [m |-> [m EXCEPT !.rowgroups_written = @ + Len(tables),
                     !.total_rows = @ + Len(Flatten(tables))],
     out |-> IF out.closes > 0
             THEN [out EXCEPT !.late_writes = @ + Len(tables)]
             ELSE [out EXCEPT !.row_groups = @ \o tables,
                              !.columns = @ \o [i \in 1..Len(tables) |-> cols]]]

(* ------------------------- schemas of the merge ------------------------ *)

\* Arrow data types: null, int64, string and timestamp[unit, tz]
Units == {"s", "ms", "us", "ns"}
Null == [kind |-> "null", unit |-> "", tz |-> ""]
Int64 == [kind |-> "int64", unit |-> "", tz |-> ""]
String == [kind |-> "string", unit |-> "", tz |-> ""]
Timestamp(unit, tz) == [kind |-> "timestamp", unit |-> unit, tz |-> tz]

is_null(typ) == typ.kind = "null"
is_timestamp(typ) == typ.kind = "timestamp"

\* pa.field(name, type, nullable=...); a schema is a sequence of fields
Field(name, typ, nullable) == [name |-> name, type |-> typ, nullable |-> nullable]

\* schema.names
SchemaNames(schema) == [i \in 1..Len(schema) |-> schema[i].name]
NameSet(schema) == {schema[i].name : i \in 1..Len(schema)}

\* schema.get_field_index(name), counted from 1
get_field_index(schema, name) == CHOOSE i \in 1..Len(schema) : schema[i].name = name

\* the merge of two fields of one name that keeps the first field's type when one of
\* the two types is null
merge_field_first_type(a, b) ==
    IF a.type = b.type
    THEN Some(Field(a.name, a.type, a.nullable \/ b.nullable))
    ELSE IF is_null(a.type) \/ is_null(b.type)
    THEN Some(Field(a.name, a.type, TRUE))
    ELSE None

\* pa.unify_schemas, default options, on two fields of one name: equal types are
\* kept and the field is nullable when either is; a null type gives way to the other
\* type and the field becomes nullable; any other pair of types is an error (None)
merge_field(a, b) ==
    IF a.type = b.type
    THEN Some(Field(a.name, a.type, a.nullable \/ b.nullable))
    ELSE IF is_null(a.type)
    THEN Some(Field(a.name, b.type, TRUE))
    ELSE IF is_null(b.type)
    THEN Some(Field(a.name, a.type, TRUE))
    ELSE None

\* pa.unify_schemas adding one field to the fields gathered so far: a new name is
\* appended, a known name is merged in place; None once a merge has failed
add_field(acc, f) ==
    IF acc = None THEN None
    ELSE IF f.name \in NameSet(Val(acc))
    THEN Bind(get_field_index(Val(acc), f.name), LAMBDA i :
            Bind(merge_field(Val(acc)[i], f), LAMBDA m :
                IF m = None THEN None
                ELSE Some([Val(acc) EXCEPT ![i] = Val(m)])))
    ELSE Some(Append(Val(acc), f))

RECURSIVE add_fields(_, _)
add_fields(acc, fields) ==
    IF fields = <<>> THEN acc
    ELSE add_fields(add_field(acc, Head(fields)), Tail(fields))

\* line 107, pa.unify_schemas(schemas): the schemas are folded in list order, so the
\* fields stand in the order of their first appearance; None when it raises
RECURSIVE unify_from(_, _)
unify_from(acc, rest) ==
    IF rest = <<>> THEN acc
    ELSE unify_from(add_fields(acc, Head(rest)), Tail(rest))

unify_schemas(list) == unify_from(Some(<<>>), list)

\* the projection that drops a requested name no input has
project_columns_present(unified, keep_columns) ==
    LET kept == SelectSeq(keep_columns, LAMBDA name : name \in NameSet(unified))
    IN  [i \in 1..Len(kept) |-> unified[get_field_index(unified, kept[i])]]

\* lines 111-119: the requested names in the requested order, a name absent from the
\* unified schema as a nullable null-typed placeholder
project_columns(unified, keep_columns) ==
    [i \in 1..Len(keep_columns) |->
        IF keep_columns[i] \in NameSet(unified)
        THEN unified[get_field_index(unified, keep_columns[i])]
        ELSE Field(keep_columns[i], Null, TRUE)]

\* coerce_timestamp_units that rebuilds the timestamp without its tz
coerce_timestamp_units_no_tz(schema, unit) ==
    IF unit = None THEN schema
    ELSE [i \in 1..Len(schema) |->
             IF is_timestamp(schema[i].type) /\ schema[i].type.unit # Val(unit)
             THEN Field(schema[i].name, Timestamp(Val(unit), ""), schema[i].nullable)
             ELSE schema[i]]

\* lines 124-139, coerce_timestamp_units(schema, unit) for unit None or one of Units
\* (argparse admits no other): every timestamp field of another unit is rebuilt with
\* the unit, its tz and its nullable flag; every other field is passed on
coerce_timestamp_units(schema, unit) ==
    IF unit = None THEN schema
    ELSE [i \in 1..Len(schema) |->
             IF is_timestamp(schema[i].type) /\ schema[i].type.unit # Val(unit)
             THEN Field(schema[i].name, Timestamp(Val(unit), schema[i].type.tz),
                        schema[i].nullable)
             ELSE schema[i]]

\* lines 142-170, ensure_table_matches_schema(tbl, target), by columns: one column
\* per target field in target order, of the target's type; a column of the table is
\* cast (the casts that arise are from null or between timestamps, and a cast that
\* fails on the data is a failure of the file), a missing one is made of nulls
ensure_table_matches_schema(tbl_schema, target) ==
    [i \in 1..Len(target) |->
        [name |-> target[i].name, type |-> target[i].type,
         filled |-> target[i].name \notin NameSet(tbl_schema)]]

\* unify_all_schemas that gives up on the first file whose schema cannot be read
readable_schemas_strict(files) ==
    IF \E i \in 1..Len(files) : schemas[files[i]] = None THEN <<>>
    ELSE [i \in 1..Len(files) |-> Val(schemas[files[i]])]

\* lines 96-101: the schemas of the files that can be read, in the order of the files
readable_schemas(files) ==
    Bind(SelectSeq(files, LAMBDA f : schemas[f] # None), LAMBDA ok :
        [i \in 1..Len(ok) |-> Val(schemas[ok[i]])])

\* lines 94-121, unify_all_schemas(files, keep_columns): the schema returned, or the
\* exception raised; "if keep_columns" is false of None and of the empty list
unify_all_schemas(files, keep_columns) ==
    Bind(readable_schemas(files), LAMBDA found :
        IF found = <<>> THEN [raised |-> Some("RuntimeError"), schema |-> <<>>]
        ELSE Bind(unify_schemas(found), LAMBDA unified :
            IF unified = None THEN [raised |-> Some("ArrowTypeError"), schema |-> <<>>]
            ELSE IF keep_columns # None /\ Val(keep_columns) # <<>>
            THEN [raised |-> None,
                  schema |-> project_columns(Val(unified), Val(keep_columns))]
            ELSE [raised |-> None, schema |-> Val(unified)]))

\* lines 259-261: the columns of a table of the file at path made to match the
\* unified schema
materialized_columns(path, unified) ==
    IF readable(path)
    THEN ensure_table_matches_schema(read_schema(path, SchemaNames(unified)), unified)
    ELSE <<>>

\* a close that is never issued
close_output_skipped(out) == out

\* writer.close() in the finally clause, line 286
close_output(out) == [out EXCEPT !.closes = @ + 1]

\* the schema the files of the row-level runs share
PlainSchema == <<Field("id", Int64, TRUE)>>

MergeInit ==
    /\ listing = ListingIdle
    /\ source \in Layouts
    /\ schemas = [p \in 1..MaxPath |-> Some(PlainSchema)]
    /\ \E s \in {None} \cup {Some(k) : k \in 0..MaxRowGroupSize}, o \in Paths :
          merge = [MergeIdle EXCEPT !.pc = "start", !.row_group_size = s, !.out_abs = o]
    /\ output = OutputIdle
    /\ batches = <<>>
    /\ split = SplitIdle
    /\ out_files = <<>>

\* the inputs with the output path left in
exclude_output_skipped(files, out_abs) == files

\* line 225: the inputs without the file that is the output
exclude_output(files, out_abs) == SelectSeq(files, LAMBDA f : f # out_abs)

\* lines 218-228: discovery, and the output path taken out of the inputs
Discover ==
    /\ merge.pc = "start"
    /\ \E g \in SeqsUpTo(Names, MaxGlob) :
          LET found == discover_inputs(g)
              kept == exclude_output(found, merge.out_abs)
          IN  merge' = [merge EXCEPT
                           !.matched = {abspath(g[i]) :
                                           i \in {j \in 1..Len(g) : endswith_parquet(g[j])}},
                           !.files = kept,
                           !.pc = IF found = <<>> \/ kept = <<>> THEN "exit" ELSE "schema",
                           !.exit_code = IF found = <<>> \/ kept = <<>> THEN Some(1) ELSE None]
    /\ UNCHANGED <<source, schemas, output, batches, split, out_files, listing>>

\* lines 230-253: the unified schema is built and coerced, then the writer is
\* created with it and the counters start at zero; an exception of the schema
\* functions ends the run before the writer exists
OpenWriter ==
    /\ merge.pc = "schema"
    /\ \E r \in {unify_all_schemas(merge.files, merge.columns)} :
          IF r.raised # None
          THEN /\ merge' = [merge EXCEPT !.pc = "raised", !.raised = r.raised]
               /\ output' = output
          ELSE \E unified \in {coerce_timestamp_units(r.schema, merge.coerce_timestamps)} :
                  /\ output' = [output EXCEPT !.opens = @ + 1, !.schema = unified]
                  /\ merge' = [merge EXCEPT !.pc = "files", !.files_written = 0,
                                            !.rowgroups_written = 0, !.total_rows = 0,
                                            !.uncoerced = r.schema, !.unified = unified]
    /\ UNCHANGED <<source, schemas, batches, split, out_files, listing>>

\* lines 256-258: the loop takes the next path
NextFile ==
    /\ merge.pc = "files"
    /\ merge.file_i < Len(merge.files)
    /\ merge' = [merge EXCEPT !.file_i = @ + 1, !.path = merge.files[merge.file_i + 1],
                              !.wrote_any_rg = FALSE, !.rg_i = 0, !.pc = "row_groups"]
    /\ UNCHANGED <<source, schemas, output, batches, split, out_files, listing>>

\* lines 259-278: one row group is read and written, whole or in slices
AppendRowGroup ==
    /\ merge.pc = "row_groups"
    /\ readable(merge.path)
    /\ merge.rg_i < num_row_groups(merge.path)
    /\ \E w \in {write_tables(merge, output,
                     tables_to_write(read_row_group(merge.path, merge.rg_i),
                                     merge.row_group_size),
                     materialized_columns(merge.path, merge.unified))} :
          /\ merge' = [w.m EXCEPT !.rg_i = @ + 1, !.wrote_any_rg = TRUE]
          /\ output' = w.out
    /\ UNCHANGED <<source, schemas, batches, split, out_files, listing>>

\* lines 280-281: the file's row groups are exhausted
EndFile ==
    /\ merge.pc = "row_groups"
    /\ readable(merge.path)
    /\ merge.rg_i >= num_row_groups(merge.path)
    /\ merge' = [merge EXCEPT !.files_written = IF merge.wrote_any_rg THEN @ + 1 ELSE @,
                              !.pc = "files"]
    /\ UNCHANGED <<source, schemas, output, batches, split, out_files, listing>>

\* the tables written before an exception is raised while the file is streamed:
\* opening the file or reading a row group fails (none of the row group's tables
\* written), or a write fails after j of the row group's tables
WrittenBeforeFailure ==
    IF ~readable(merge.path) THEN {<<>>}
    ELSE IF merge.rg_i < num_row_groups(merge.path)
    THEN LET tables == tables_to_write(read_row_group(merge.path, merge.rg_i),
                                       merge.row_group_size)
         IN  {SubSeq(tables, 1, j) : j \in 0..(Len(tables) - 1)}
    ELSE IF merge.rg_i = 0 THEN {<<>>} ELSE {}

\* the exception is let out of the loop instead of being caught
on_file_exception_uncaught(m) == [m EXCEPT !.failed = @ \cup {m.path}, !.pc = "aborted"]

\* lines 282-283: the handler logs the warning and the loop goes on
on_file_exception(m) == [m EXCEPT !.failed = @ \cup {m.path}, !.pc = "files"]

\* lines 282-283: an Exception while streaming the file is caught and logged
FileFails ==
    /\ merge.pc = "row_groups"
    /\ \E tables \in WrittenBeforeFailure :
          \E w \in {write_tables(merge, output, tables,
                                  materialized_columns(merge.path, merge.unified))} :
              /\ merge' = on_file_exception(w.m)
              /\ output' = w.out
    /\ UNCHANGED <<source, schemas, batches, split, out_files, listing>>

\* lines 285-286: an exception the per-file handler does not catch (KeyboardInterrupt)
\* leaves the loop through the finally clause
Interrupted ==
    /\ merge.pc = "row_groups"
    /\ \E tables \in WrittenBeforeFailure :
          \E w \in {write_tables(merge, output, tables,
                                  materialized_columns(merge.path, merge.unified))} :
              /\ merge' = [w.m EXCEPT !.pc = "aborted"]
              /\ output' = close_output(w.out)
    /\ UNCHANGED <<source, schemas, batches, split, out_files, listing>>

\* lines 285-291: the loop ends, the writer is closed and the summary printed
MergeFinish ==
    /\ merge.pc = "files"
    /\ merge.file_i >= Len(merge.files)
    /\ output' = close_output(output)
    /\ merge' = [merge EXCEPT
                    !.pc = "done",
                    !.summary = Some(<<merge.files_written, Len(merge.files),
                                       merge.rowgroups_written, merge.total_rows>>)]
    /\ UNCHANGED <<source, schemas, batches, split, out_files, listing>>

MergeNext ==
    \/ Discover
    \/ OpenWriter
    \/ NextFile
    \/ AppendRowGroup
    \/ EndFile
    \/ FileFails
    \/ Interrupted
    \/ MergeFinish

MergeSpec == MergeInit /\ [][MergeNext]_vars

(* -------------------- runs over differing schemas ---------------------- *)

\* the schemas found in the files, None for a file whose schema cannot be read:
\* neighbours share columns in another order, differ in nullability, hold a
\* null-typed column, or disagree on a type
SchemaPool ==
    << Some(<<Field("id", Int64, FALSE), Field("ts", Timestamp("ns", "UTC"), TRUE)>>),
       Some(<<Field("value", String, TRUE), Field("id", Int64, TRUE)>>),
       Some(<<Field("value", Null, TRUE), Field("note", String, TRUE),
              Field("ts", Timestamp("ns", "UTC"), FALSE)>>),
       None,
       Some(<<Field("id", String, TRUE), Field("ts", Timestamp("ms", ""), FALSE)>>),
       Some(<<Field("ts", Timestamp("ms", ""), TRUE), Field("note", Null, TRUE)>>) >>

\* file p holds the pool's schema number step * p + shift, counted round the pool
SchemaLayout(step, shift) ==
    [p \in 1..MaxPath |-> SchemaPool[((step * p + shift) % Len(SchemaPool)) + 1]]

SchemaLayouts ==
    {SchemaLayout(step, shift) : step \in {1, Len(SchemaPool) - 1},
                                 shift \in 0..(Len(SchemaPool) - 1)}

\* args.columns: --columns absent, given without a name, or given with names
ColumnsArgs ==
    {None, Some(<<>>), Some(<<"value", "id">>), Some(<<"extra", "ts", "id">>)}

\* args.coerce_timestamps: absent, or one of the units argparse admits
CoerceArgs == {None} \cup {Some(u) : u \in Units}

SchemaInit ==
    /\ listing = ListingIdle
    /\ source = Layout(1, 0)
    /\ schemas \in SchemaLayouts
    /\ \E k \in ColumnsArgs, u \in CoerceArgs :
          merge = [MergeIdle EXCEPT !.pc = "start", !.out_abs = 0,
                                    !.columns = k, !.coerce_timestamps = u]
    /\ output = OutputIdle
    /\ batches = <<>>
    /\ split = SplitIdle
    /\ out_files = <<>>

SchemaSpec == SchemaInit /\ [][MergeNext]_vars

(* ------------------- a split followed by a merge ----------------------- *)

\* line 144, the width of {file_index:05d}
PadWidth == 5

\* the decimal digits of n
RECURSIVE Digits(_)
Digits(n) == IF n < 10 THEN <<n>> ELSE Append(Digits(n \div 10), n % 10)

\* f"{n:05d}": the digits, with zeros in front up to the width, never cut
format_05d(n) == [i \in 1..(PadWidth - Len(Digits(n))) |-> 0] \o Digits(n)

\* line 144: the path of the partition with this file_index, after the directory and
\* the prefix all partitions share: the digits, then the "." of ".parquet", a
\* character that sorts before every digit (-1)
partition_name(file_index) == Append(format_05d(file_index), -1)

\* a < b for str
RECURSIVE str_lt(_, _)
str_lt(a, b) ==
    IF b = <<>> THEN FALSE
    ELSE IF a = <<>> THEN TRUE
    ELSE IF Head(a) # Head(b) THEN Head(a) < Head(b)
    ELSE str_lt(Tail(a), Tail(b))

\* sorted(S) of a set of path strings
RECURSIVE sorted_names(_)
sorted_names(S) ==
    IF S = {} THEN <<>>
    ELSE LET m == CHOOSE x \in S : \A y \in S : x = y \/ str_lt(x, y)
         IN  <<m>> \o sorted_names(S \ {m})

\* the path of the k-th of n partitions among the paths of the merge, which stand
\* for strings in their order: its place among the n partition names
PartitionPath(k, n) ==
    Cardinality({j \in 1..n : j = k \/ str_lt(partition_name(j - 1), partition_name(k - 1))})

\* the names a glob over the output directory returns, in the order the partitions
\* were written or in the reverse of it
PartitionGlobs(n) ==
    {[k \in 1..n |-> 2 * PartitionPath(k, n)],
     [k \in 1..n |-> 2 * PartitionPath(n + 1 - k, n)]}

\* file indices of partitions of one split, small and about the width of the name
PartitionSamples == {0, 1, 9, 10, 9999, 10000, 10001, 99999, 100000, 100001}

\* two or three partitions of one split, in the order they were written
SampleLists ==
    {<<a, b>> : a, b \in PartitionSamples} \cup
    {<<a, b, c>> : a, b, c \in PartitionSamples}

\* a split with valid arguments of a source of a few batches, or the names of some
\* partitions of a split
RoundTripInit ==
    /\ out_files = <<>>
    /\ source = <<>>
    /\ schemas = <<>>
    /\ merge = MergeIdle
    /\ output = OutputIdle
    /\ \/ /\ listing = ListingIdle
          /\ batches \in SeqsUpTo(0..MaxBatchRows, MaxBatches - 1)
          /\ \E p \in PartsArgs, r \in RowsPerFileArgs, b \in 1..MaxBufferRows :
                /\ ~options_error(p, r)
                /\ split = [SplitIdle EXCEPT !.pc = "validate", !.parts = p,
                                             !.rows_per_file = r, !.buffer_target_rows = b]
       \/ /\ batches = <<>>
          /\ split = SplitIdle
          /\ \E s \in SampleLists :
                /\ \A i \in 1..(Len(s) - 1) : s[i] < s[i + 1]
                /\ listing = [ListingIdle EXCEPT !.pc = "format", !.indices = s]

\* line 144 for each of the partitions
FormatNames ==
    /\ listing.pc = "format"
    /\ listing' = [listing EXCEPT
                      !.pc = "sort",
                      !.names = [i \in 1..Len(listing.indices) |->
                                    partition_name(listing.indices[i])]]
    /\ UNCHANGED <<batches, split, out_files, source, schemas, merge, output>>

\* concat_parquet.py line 85 on the names: the order the merge reads them in
SortNames ==
    /\ listing.pc = "sort"
    /\ listing' = [listing EXCEPT
                      !.pc = "sorted",
                      !.order = sorted_names({listing.names[i] : i \in 1..Len(listing.names)})]
    /\ UNCHANGED <<batches, split, out_files, source, schemas, merge, output>>

\* the merge is started on the directory the split has filled: the partition files
\* are the files on disk, all of the source's schema, and lines 218-228 discover
\* them and leave the output path, which is none of them, out
MergePartitions ==
    /\ split.pc = "done"
    /\ merge.pc = "idle"
    /\ \E n \in {Len(out_files)} :
          /\ source' = [q \in 1..n |->
                           out_files[CHOOSE k \in 1..n : PartitionPath(k, n) = q].row_groups]
          /\ schemas' = [q \in 1..n |-> Some(PlainSchema)]
          /\ \E g \in PartitionGlobs(n),
                s \in {None} \cup {Some(k) : k \in 1..MaxRowGroupSize} :
                LET found == discover_inputs(g)
                    kept == exclude_output(found, 0)
                IN  merge' = [merge EXCEPT
                        !.row_group_size = s,
                        !.matched = {abspath(g[i]) : i \in 1..Len(g)},
                        !.files = kept,
                        !.pc = IF found = <<>> \/ kept = <<>> THEN "exit" ELSE "schema",
                        !.exit_code = IF found = <<>> \/ kept = <<>> THEN Some(1) ELSE None]
    /\ UNCHANGED <<batches, split, out_files, output, listing>>

\* the steps of a split and a merge in which no input-output call fails
RoundTripNext ==
    \/ Validate
    \/ OpenFirst
    \/ NextBatch
    \/ SliceStep
    \/ Finish
    \/ MergePartitions
    \/ OpenWriter
    \/ NextFile
    \/ AppendRowGroup
    \/ EndFile
    \/ MergeFinish
    \/ FormatNames
    \/ SortNames

RoundTripSpec == RoundTripInit /\ [][RoundTripNext]_vars

(* ----------------------- properties of the split ---------------------- *)

PartitionRows(k) == Flatten(out_files[k].row_groups)
PartitionSizes == [k \in 1..Len(out_files) |-> Len(PartitionRows(k))]
NonEmptyPartitions == {k \in 1..Len(out_files) : PartitionRows(k) # <<>>}
\* the places a row is written at: partition and position
Places(r) ==
    {<<k, i>> \in (1..Len(out_files)) \X (1..CountRows(batches)) :
        i <= Len(PartitionRows(k)) /\ PartitionRows(k)[i] = r}
SplitDone == split.pc = "done"
PartsMode == split.parts # None /\ split.rows_per_file = None
RowsMode == split.parts = None /\ split.rows_per_file # None

\* C1: when a split completes, every input row is in exactly one place of exactly
\* one partition, and the partitions' row counts add up to the input's row count.
C1_EachRowWrittenOnce ==
    SplitDone =>
        /\ \A r \in 1..CountRows(batches) : Cardinality(Places(r)) = 1
        /\ SumSeq(PartitionSizes) = CountRows(batches)
        /\ split.total_rows = CountRows(batches)

C1_Witness ==
    /\ SplitDone
    /\ Len(batches) >= 2
    /\ Cardinality(NonEmptyPartitions) >= 2
    /\ split.buffer_target_rows < split.target_rows
    /\ \E i \in 1..Len(batches) : batches[i] > split.target_rows
    /\ \E k \in 1..Len(out_files) : Len(out_files[k].row_groups) >= 2

\* C2: with a fixed partition count the partitions opened never exceed the
\* requested parts, in any state, and the sanity check never raises.
C2_ProducedWithinParts ==
    /\ PartsMode /\ Val(split.parts) >= 1 =>
          /\ split.produced <= Val(split.parts)
          /\ Len(out_files) <= Val(split.parts)
    /\ split.raised # Some("RuntimeError")

C2_Witness ==
    /\ SplitDone
    /\ PartsMode
    /\ split.produced = Val(split.parts)
    /\ Val(split.parts) >= 2
    /\ Len(PartitionRows(Len(out_files))) >= 2

\* C3: with rows_per_file = R, when the run completes every partition but the
\* last holds exactly R rows.
C3_AllButLastFull ==
    SplitDone /\ RowsMode =>
        \A k \in 1..(Len(out_files) - 1) :
            Len(PartitionRows(k)) = Val(split.rows_per_file)

C3_Witness ==
    /\ SplitDone
    /\ RowsMode
    /\ Len(out_files) >= 3
    /\ Val(split.rows_per_file) >= 2
    /\ split.buffer_target_rows # Val(split.rows_per_file)
    /\ \E i \in 1..Len(batches) : batches[i] % Val(split.rows_per_file) # 0

\* C4: with parts = P on N rows and T = max(1, ceil(N / P)), partition k (from 0)
\* holds exactly the input rows k*T .. min((k+1)*T, N) - 1 in input order, so no
\* partition holds more than T rows.
C4_ContiguousRanges ==
    SplitDone /\ PartsMode =>
        LET N == CountRows(batches)
            P == Val(split.parts)
            T == IF N = 0 THEN 1 ELSE ((N - 1) \div P) + 1
        IN  /\ \A k \in 1..Len(out_files) :
                  /\ PartitionRows(k) =
                        [i \in 1..(Min(k * T, N) - Min((k - 1) * T, N)) |-> (k - 1) * T + i]
                  /\ Len(PartitionRows(k)) <= T
            /\ Len(out_files) * T >= N

C4_Witness ==
    /\ SplitDone
    /\ PartsMode
    /\ Val(split.parts) = 3
    /\ CountRows(batches) = 7
    /\ PartitionSizes = <<3, 3, 1>>

\* C5: with rows_per_file = R on N >= 1 rows the run produces exactly ceil(N / R)
\* partitions: floor(N / R) of R rows and, when R does not divide N, one more of
\* N mod R rows.
C5_PartitionCount ==
    SplitDone /\ RowsMode /\ CountRows(batches) >= 1 =>
        LET N == CountRows(batches)
            R == Val(split.rows_per_file)
        IN  /\ Len(out_files) = ((N - 1) \div R) + 1
            /\ PartitionSizes =
                  [k \in 1..(((N - 1) \div R) + 1) |-> IF k * R <= N THEN R ELSE N % R]

\* C10: a run never ends, normally or by an error, with a partition writer open.
C10_NoWriterLeftOpen ==
    split.pc \in {"done", "raised"} =>
        \A k \in 1..Len(out_files) : out_files[k].closed

(* ----------------------- properties of the merge ---------------------- *)

OutputRows == Flatten(output.row_groups)
FileRows(p) == Flatten(source[p])
MergeDone == merge.pc = "done"
InputFiles == {merge.files[i] : i \in 1..Len(merge.files)}
RowsFrom(p) == SelectSeq(OutputRows, LAMBDA r : r[1] = p)
\* row a comes before row b: an earlier path, or the same file and an earlier row
Before(a, b) == a[1] < b[1] \/ (a[1] = b[1] /\ a[2] < b[2])
IsPrefix(s, u) == Len(s) <= Len(u) /\ s = SubSeq(u, 1, Len(s))

\* C6: when a merge completes, the rows in the output are as many as the rows of
\* the source files processed without a failure; a failed file contributes none.
C6_RowsOfSuccessfulFiles ==
    MergeDone =>
        /\ Len(OutputRows)
              = SumSeq([i \in 1..Len(merge.files) |->
                           IF merge.files[i] \in merge.failed THEN 0
                           ELSE Len(FileRows(merge.files[i]))])
        /\ merge.total_rows = Len(OutputRows)

\* C7: the files are processed in ascending path order without duplicates, the
\* rows of a file are appended in the file's order, and the output of a run
\* without failures is the concatenation of the files' rows in path order.
C7_SortedPathOrder ==
    /\ merge.pc # "start" =>
          /\ \A i \in 1..(Len(merge.files) - 1) : merge.files[i] < merge.files[i + 1]
          /\ InputFiles = merge.matched \ {merge.out_abs}
    /\ \A i \in 1..(Len(OutputRows) - 1) : Before(OutputRows[i], OutputRows[i + 1])
    /\ \A p \in InputFiles : IsPrefix(RowsFrom(p), FileRows(p))
    /\ MergeDone /\ merge.failed = {} =>
          OutputRows = Flatten([i \in 1..Len(merge.files) |-> FileRows(merge.files[i])])

C7_Witness ==
    /\ MergeDone
    /\ merge.failed = {}
    /\ Cardinality({p \in InputFiles : RowsFrom(p) # <<>>}) >= 2
    /\ \E p \in InputFiles : Len(source[p]) >= 2
    /\ merge.rowgroups_written
          > SumSeq([i \in 1..Len(merge.files) |-> Len(source[merge.files[i]])])
    /\ merge.out_abs \in merge.matched

\* C8: the files_written a run reports is the number of source files that
\* contributed at least one row group to the output.
C8_FilesWrittenCountsContributors ==
    MergeDone =>
        Val(merge.summary)[1] = Cardinality({p \in InputFiles : RowsFrom(p) # <<>>})

\* C9: the output writer is opened once before the file loop and closed once
\* after it on every way out of the loop, and nothing is written to it once closed.
C9_WriterOpenedAndClosedOnce ==
    /\ merge.pc \in {"start", "schema", "exit"} => output.opens = 0 /\ output.closes = 0
    /\ merge.pc \in {"files", "row_groups"} => output.opens = 1 /\ output.closes = 0
    /\ merge.pc \in {"done", "aborted"} => output.opens = 1 /\ output.closes = 1
    /\ output.late_writes = 0

C9_Witness ==
    /\ merge.pc = "aborted"
    /\ merge.failed # {}
    /\ merge.file_i >= 2
    /\ OutputRows # <<>>
    /\ output.closes = 1

OneValidOption ==
    \/ split.parts # None /\ split.rows_per_file = None /\ Val(split.parts) >= 1
    \/ split.parts = None /\ split.rows_per_file # None /\ Val(split.rows_per_file) >= 1

\* C18: both of parts and rows_per_file, neither, or a value <= 0 raises an error
\* before the output directory is made and before any partition writer is opened;
\* exactly one positive value never raises a validation error.
C18_ValidationBeforeOutput ==
    /\ split.pc # "validate" => (split.raised = Some("ValueError") <=> ~OneValidOption)
    /\ ~OneValidOption =>
          /\ ~split.outdir
          /\ out_files = <<>>
          /\ split.writer = None
          /\ split.produced = 0
          /\ split.pc \in {"validate", "raised"}
    /\ OneValidOption /\ split.pc # "validate" => split.outdir

C18_Witness ==
    /\ split.pc = "raised"
    /\ split.parts # None
    /\ split.rows_per_file # None
    /\ Val(split.parts) >= 1
    /\ Val(split.rows_per_file) >= 1
    /\ CountRows(batches) >= 2

\* the largest number of rows in one source batch
LargestBatch ==
    CHOOSE m \in {0} \cup {batches[i] : i \in 1..Len(batches)} :
        \A i \in 1..Len(batches) : batches[i] <= m

\* C19: after each slice is processed the buffer holds strictly fewer rows than the
\* row-group threshold, so the buffer never holds as many as the threshold plus the
\* largest batch size, and after the final flush it is empty.
C19_BufferBelowThreshold ==
    /\ split.buffered_rows = SumSeq([i \in 1..Len(split.buffer_batches) |->
                                        Len(split.buffer_batches[i])])
    /\ split.pc \in {"stream", "done"} => split.buffered_rows < split.buffer_target_rows
    /\ split.peak_buffered < split.buffer_target_rows + LargestBatch
    /\ split.pc = "done" => split.buffered_rows = 0 /\ split.buffer_batches = <<>>

\* a slice took the buffer past the threshold and was flushed, and a later slice is
\* buffered below the threshold
C19_Witness ==
    /\ split.pc = "stream"
    /\ split.buffered_rows >= 1
    /\ split.peak_buffered > split.buffer_target_rows
    /\ Len(out_files) >= 1
    /\ out_files[1].row_groups # <<>>

(* ------------------ further properties of the merge ------------------- *)

\* the writes expected for a chunk: whole, or ceil(n / S) pieces of S rows, the last
\* one the remainder
ExpectedWrites(chunk, size) ==
    IF size = None \/ Val(size) = 0 \/ Len(chunk) <= Val(size)
    THEN <<chunk>>
    ELSE [k \in 1..Ceil(Len(chunk), Val(size)) |->
             SubSeq(chunk, (k - 1) * Val(size) + 1, Min(k * Val(size), Len(chunk)))]

\* the writes expected for the first k row groups of the file at path p
ExpectedOfFile(p, k) ==
    Flatten([i \in 1..k |-> ExpectedWrites(source[p][i], merge.row_group_size)])

\* the writes expected of a run without failure, up to its present position
ExpectedSoFar ==
    LET whole == IF merge.pc = "row_groups" THEN merge.file_i - 1 ELSE merge.file_i
    IN  Flatten([i \in 1..whole |->
                    ExpectedOfFile(merge.files[i], Len(source[merge.files[i]]))])
        \o (IF merge.pc = "row_groups" THEN ExpectedOfFile(merge.path, merge.rg_i) ELSE <<>>)

\* C20: with a row-group size S >= 1 every table written has at most S rows; a chunk
\* of n > S rows is written as ceil(n / S) consecutive slices of S rows, the last one
\* possibly shorter, that concatenate to the chunk; a chunk of n <= S rows, or any
\* chunk without a size, is written whole in one write; rowgroups_written and
\* total_rows are the number of writes and of rows written.
C20_RechunkedWrites ==
    merge.pc \in {"files", "row_groups", "done", "aborted"} =>
        /\ merge.row_group_size # None /\ Val(merge.row_group_size) >= 1 =>
              \A i \in 1..Len(output.row_groups) :
                  Len(output.row_groups[i]) <= Val(merge.row_group_size)
        /\ merge.rowgroups_written = Len(output.row_groups)
        /\ merge.total_rows = Len(OutputRows)
        /\ merge.failed = {} /\ merge.pc # "aborted" => output.row_groups = ExpectedSoFar

\* a run with size 2 has cut a chunk of three rows in two and written a chunk of two
\* rows or fewer whole
C20_Witness ==
    /\ MergeDone
    /\ merge.failed = {}
    /\ merge.row_group_size = Some(2)
    /\ \E p \in InputFiles : \E i \in 1..Len(source[p]) : Len(source[p][i]) = 3
    /\ \E p \in InputFiles : \E i \in 1..Len(source[p]) : Len(source[p][i]) <= 2
    /\ \E i \in 1..Len(output.row_groups) : Len(output.row_groups[i]) = 1

\* C16: a failure while a source file is streamed never aborts the run: the loop goes
\* on with the next file in sorted order, every file is attempted before the run
\* ends, and the summary is printed after the writer is closed, whatever files fail.
C16_FailureDoesNotAbort ==
    /\ [][merge'.failed # merge.failed =>
              /\ merge'.failed = merge.failed \cup {merge.path}
              /\ merge'.pc = "files"
              /\ merge'.file_i = merge.file_i
              /\ merge'.exit_code = None
              /\ output'.closes = 0]_vars
    /\ [](merge.pc = "row_groups" => merge.path = merge.files[merge.file_i])
    /\ [](merge.pc = "files" => ENABLED (NextFile \/ MergeFinish))
    /\ [](merge.failed \subseteq {merge.files[i] : i \in 1..merge.file_i})
    /\ [](MergeDone =>
              /\ merge.file_i = Len(merge.files)
              /\ merge.summary # None
              /\ output.closes = 1
              /\ output.late_writes = 0)
    /\ [](merge.summary # None => MergeDone)

\* every one of at least two input files failed, and the summary was still printed
C16_Witness ==
    /\ MergeDone
    /\ Len(merge.files) >= 2
    /\ merge.failed = InputFiles
    /\ merge.summary # None
    /\ output.closes = 1

(* ------------------------ properties of the schemas -------------------- *)

\* the input files whose schema can be read
ReadableInputs == {f \in InputFiles : schemas[f] # None}

\* two readable inputs give one column name two different types, neither of them null
TypeConflict ==
    \E f, g \in ReadableInputs :
        \E i \in 1..Len(Val(schemas[f])), j \in 1..Len(Val(schemas[g])) :
            LET a == Val(schemas[f])[i]
                b == Val(schemas[g])[j]
            IN  /\ a.name = b.name
                /\ a.type # b.type
                /\ ~is_null(a.type)
                /\ ~is_null(b.type)

\* C17: when no input schema can be read, or two inputs disagree on a column's type,
\* the run ends before the output writer is opened: no output file, no row written;
\* an unreadable schema is not fatal while another schema can be read.
C17_FatalSchemaBeforeWriter ==
    merge.pc \notin {"start", "schema", "exit"} =>
        /\ merge.pc = "raised" <=> (ReadableInputs = {} \/ TypeConflict)
        /\ merge.pc = "raised" =>
              /\ merge.raised = IF ReadableInputs = {} THEN Some("RuntimeError")
                                ELSE Some("ArrowTypeError")
              /\ output.opens = 0
              /\ output.row_groups = <<>>
              /\ merge.total_rows = 0
              /\ merge.summary = None
              /\ ~ENABLED MergeNext
        /\ merge.pc # "raised" => merge.raised = None /\ output.opens = 1

\* a type conflict ended a run one of whose inputs has an unreadable schema
C17_Witness ==
    /\ merge.pc = "raised"
    /\ merge.raised = Some("ArrowTypeError")
    /\ ReadableInputs # InputFiles

\* the schema step has succeeded: merge.uncoerced is the result of unify_all_schemas
\* and merge.unified the result of coerce_timestamp_units on it
SchemaBuilt == merge.pc \in {"files", "row_groups", "done", "aborted"}

\* C15: coerce_timestamp_units is idempotent for every unit of s, ms, us, ns; in its
\* result every timestamp field has the unit, with the timezone and nullability it
\* had, every other field is unchanged, names and order are kept; without a unit the
\* schema is returned as it was.
C15_CoercionIdempotent ==
    SchemaBuilt =>
        LET S == merge.uncoerced
            U == merge.coerce_timestamps
            R == merge.unified
        IN  /\ U = None => R = S
            /\ U # None =>
                  /\ Val(U) \in Units
                  /\ coerce_timestamp_units(R, U) = R
                  /\ Len(R) = Len(S)
                  /\ \A i \in 1..Len(S) :
                        /\ R[i].name = S[i].name
                        /\ R[i].nullable = S[i].nullable
                        /\ is_timestamp(S[i].type) =>
                              R[i].type = Timestamp(Val(U), S[i].type.tz)
                        /\ ~is_timestamp(S[i].type) => R[i] = S[i]
            /\ output.schema = R

\* a schema with a non-nullable UTC timestamp of another unit, a timestamp-free
\* field and a null placeholder has been coerced
C15_Witness ==
    /\ SchemaBuilt
    /\ merge.coerce_timestamps = Some("us")
    /\ \E i \in 1..Len(merge.uncoerced) :
          /\ merge.uncoerced[i].type = Timestamp("ns", "UTC")
          /\ ~merge.uncoerced[i].nullable
          /\ merge.unified[i].type = Timestamp("us", "UTC")
    /\ \E i \in 1..Len(merge.uncoerced) : is_null(merge.uncoerced[i].type)
    /\ \E i \in 1..Len(merge.uncoerced) : merge.uncoerced[i].type = Int64

\* the orders a list can be put in
Orderings(s) ==
    {[i \in 1..Len(s) |-> s[q[i]]] :
        q \in {r \in [1..Len(s) -> 1..Len(s)] : \A i, j \in 1..Len(s) : r[i] = r[j] => i = j}}

\* the fields of a schema, their order left aside
FieldSet(schema) == {schema[i] : i \in 1..Len(schema)}

\* a list without the repetitions of what stood in it before
RECURSIVE Dedup(_)
Dedup(s) ==
    IF s = <<>> THEN <<>>
    ELSE LET rest == Dedup(SubSeq(s, 1, Len(s) - 1))
         IN  IF \E i \in 1..Len(rest) : rest[i] = s[Len(s)] THEN rest
             ELSE Append(rest, s[Len(s)])

\* the column names of the readable files of a list, by first appearance
FirstAppearance(files) ==
    Dedup(Flatten([i \in 1..Len(files) |->
                      IF schemas[files[i]] = None THEN <<>>
                      ELSE SchemaNames(Val(schemas[files[i]]))]))

\* C14 as stated: without a requested column list, every permutation of a list of
\* schemas without type conflict yields the same unified schema, the same fields in
\* the same order.
C14_SameSchemaAnyOrder ==
    SchemaBuilt /\ merge.columns = None =>
        \A P \in Orderings(merge.files) :
            unify_all_schemas(P, None) = [raised |-> None, schema |-> merge.uncoerced]

\* C14: without a requested column list, every permutation of a list of schemas
\* without type conflict yields a unified schema of the same fields (name, type and
\* nullability); the fields stand in the order of their first appearance in the
\* list, so their order follows the order of the list.
C14_SameFieldsAnyOrder ==
    SchemaBuilt /\ merge.columns = None =>
        \A P \in Orderings(merge.files) :
            \E r \in {unify_all_schemas(P, None)} :
                /\ r.raised = None
                /\ FieldSet(r.schema) = FieldSet(merge.uncoerced)
                /\ Len(r.schema) = Len(merge.uncoerced)
                /\ SchemaNames(r.schema) = FirstAppearance(P)

\* three readable inputs, one with a null-typed column another input types, were
\* unified, and another order of the inputs gives another order of the fields
C14_Witness ==
    /\ SchemaBuilt
    /\ merge.columns = None
    /\ Cardinality(ReadableInputs) >= 3
    /\ \E f \in ReadableInputs : \E i \in 1..Len(Val(schemas[f])) :
          /\ is_null(Val(schemas[f])[i].type)
          /\ \E j \in 1..Len(merge.uncoerced) :
                /\ merge.uncoerced[j].name = Val(schemas[f])[i].name
                /\ ~is_null(merge.uncoerced[j].type)
    /\ \E P \in Orderings(merge.files) :
          unify_all_schemas(P, None).schema # merge.uncoerced

\* the file the rows of the i-th written table come from
TableFile(i) == output.row_groups[i][1][1]

\* the output has exactly the columns named, in that order: its schema, and every
\* table written; a column of a table is made of nulls exactly when the file the
\* table's rows come from has no column of that name
ColumnsAre(names) ==
    /\ SchemaNames(output.schema) = names
    /\ Len(output.columns) = Len(output.row_groups)
    /\ \A i \in 1..Len(output.columns) :
          /\ SchemaNames(output.columns[i]) = names
          /\ \A k \in 1..Len(output.columns[i]) :
                output.columns[i][k].filled <=>
                    output.columns[i][k].name \notin NameSet(Val(schemas[TableFile(i)]))

\* C12 as stated: for every supplied column list the output's column names are the
\* requested names in the requested order; a requested column no input has is null
\* in every row, one that some inputs have is null in exactly the rows of the files
\* that lack it.
C12_RequestedColumns ==
    SchemaBuilt /\ merge.columns # None => ColumnsAre(Val(merge.columns))

\* C12: for every supplied list of at least one name the output's column names are
\* the requested names in the requested order; a requested column no input has is
\* null in every row, one that some inputs have is null in exactly the rows of the
\* files that lack it; a list of no names is treated as no list, the output keeping
\* every column of the unified schema.
C12_RequestedColumnsNonEmpty ==
    SchemaBuilt /\ merge.columns # None =>
        IF Val(merge.columns) # <<>>
        THEN ColumnsAre(Val(merge.columns))
        ELSE ColumnsAre(FirstAppearance(merge.files))

\* a run asked for a column no input has, and wrote rows of a file that has the
\* column ts and rows of a file that lacks it
C12_Witness ==
    /\ MergeDone
    /\ merge.columns = Some(<<"extra", "ts", "id">>)
    /\ \E i, j \in 1..Len(output.columns) :
          /\ ~output.columns[i][2].filled
          /\ output.columns[j][2].filled
          /\ output.columns[i][1].filled
          /\ ~output.columns[j][3].filled

(* --------------------- properties of the round trip -------------------- *)

\* C13: splitting a file of N rows with valid arguments and merging exactly the
\* partitions written, without column list or timestamp coercion, gives an output of
\* N rows that are the rows of the file in their order, whatever the row groups: the
\* merge reads the partitions in the order the split wrote them, and writes the
\* rows of each in order.
C13_RoundTrip ==
    /\ merge.pc # "idle" =>
          /\ split.pc = "done"
          /\ merge.columns = None
          /\ merge.coerce_timestamps = None
          /\ Len(merge.files) = split.produced
          /\ merge.pc \notin {"exit", "raised", "aborted"}
    /\ MergeDone =>
          /\ merge.total_rows = CountRows(batches)
          /\ OutputRows = [i \in 1..CountRows(batches) |-> i]
          /\ merge.failed = {}
          /\ output.closes = 1
    /\ listing.pc = "sorted" => listing.order = listing.names

(* ----------------- the buffer and the active partition ----------------- *)

\* the rows written so far to the partition of the active writer
ActiveRows == Flatten(out_files[Val(split.writer)].row_groups)

\* the rows now in the buffer
BufferedRows == Flatten(split.buffer_batches)

\* the number of source rows taken into slices so far
RowsTaken ==
    SumSeq(SubSeq(batches, 1, Max(0, split.batch_i - 1))) +
    (IF split.batch_i >= 1 THEN split.offset ELSE 0)

\* C21: whenever a partition writer is closed the buffer is empty, and every buffered
\* slice is flushed into the partition that was active when it was buffered: in every
\* state rows_in_current is the number of rows written to the active writer plus the
\* number of rows buffered, and these rows are the last rows_in_current rows taken.
C21_BufferBelongsToActive ==
    /\ split.closed_unflushed = 0
    /\ split.writer # None =>
          /\ split.rows_in_current = Len(ActiveRows) + split.buffered_rows
          /\ split.buffered_rows = Len(BufferedRows)
          /\ ActiveRows \o BufferedRows =
                [i \in 1..split.rows_in_current |->
                    RowsTaken - split.rows_in_current + i]
          /\ out_files[Val(split.writer)].closed => split.buffered_rows = 0
    /\ \A k \in 1..Len(out_files) : split.writer # Some(k) => out_files[k].closed

\* slices are buffered for the second partition, the first one is closed and the
\* second one has rows written already
C21_Witness ==
    /\ split.pc = "stream"
    /\ split.writer = Some(2)
    /\ out_files[1].closed
    /\ Len(Flatten(out_files[1].row_groups)) >= 2
    /\ Len(ActiveRows) >= 1
    /\ split.buffered_rows >= 1

(* ---------------------- progress of the slicing loop ------------------- *)

\* the cap on the number of partitions is not reached (line 160 is false)
CapNotReached == split.max_files = None \/ split.file_index < Val(split.max_files)

\* C22: every pass of the inner slicing loop consumes at least one row: at the start
\* of a pass, when the partition cap is not reached, rows_in_current < target_rows,
\* so the roll-over branch for capacity <= 0 is never taken and take >= 1; hence the
\* run of every finite batch sequence terminates, with all batches consumed unless an
\* input-output call or the validation raised.
C22_SlicingTerminates ==
    /\ [](split.pc = "stream" /\ CapNotReached =>
              split.rows_in_current < split.target_rows)
    /\ [](~split.rolled_on_capacity)
    /\ [][split.pc = "stream" /\ split.offset < split.n /\ split'.raised = None =>
              /\ split'.take >= 1
              /\ split'.offset = split.offset + split'.take
              /\ split'.batch_i = split.batch_i]_vars
    /\ <>(split.pc \in {"done", "raised"})
    /\ [](split.pc = "done" =>
              /\ split.batch_i = Len(batches)
              /\ split.offset = split.n
              /\ RowsTaken = CountRows(batches))
    /\ [](split.pc = "raised" =>
              split.raised \in {Some("ValueError"), Some("write_table"), Some("open_writer")})

\* a run over three batches has ended after passes that cut a batch in two and
\* rolled over to a third partition
C22_Witness ==
    /\ split.pc = "done"
    /\ Len(batches) = 3
    /\ split.produced >= 3
    /\ split.target_rows = 2
    /\ \E i \in 1..Len(batches) : batches[i] = 3

====
